---- MODULE Spec2Model ----
(***************************************************************************)
(* Query execution coordination layer of the SQL Runner extension:         *)
(*   PythonRunner   (src/src/pythonRunner.ts)  worker transport + queue    *)
(*   SessionManager (src/src/pythonRunner.ts)  file key -> PythonRunner    *)
(*   SqlExecutor    (src/src/sqlExecutor.ts)   runs, events, cancellation  *)
(*   MetadataWorker (src/src/metadataWorker.ts) background refresh loop    *)
(*                                                                         *)
(* The extension host is single threaded.  A step of the model is one     *)
(* macrotask of the JavaScript event loop (a user command, a webview       *)
(* message, a stdout 'data' event, a process 'exit' event) together with   *)
(* the promise jobs it leaves behind, which run in FIFO order until the    *)
(* microtask queue is empty.  The worker processes take steps of their own.*)
(***************************************************************************)
EXTENDS Naturals, Sequences, FiniteSets, TLC

\* ------------------------------------------------------------------ bounds
MaxQueries == 3      \* executeQuery calls made through the PythonRunner API
MaxRuns    == 2      \* SqlExecutor.executeQuery invocations, reliable workers
MaxFaultRuns == 1    \* the same, with worker crashes and dismissed notifications
MaxStmts   == 3      \* statements of all runs together
MaxOverlapRuns == 3  \* invocations with one statement each
MaxChars   == 6      \* characters a worker prints, in all
MaxChunk   == 3      \* characters carried by one stdout 'data' event
MaxBytes   == 5      \* bytes a worker prints, in all
MaxRequests == 1     \* cancel, reconnect, disconnect requests and worker deaths
MaxSessionRuns == 2  \* invocations with one statement each, up to the disposal
MaxOps     == 2      \* disconnect and dispose requests
MaxResults == 2      \* settled statements whose result is translated
MaxRefreshes == 2    \* MetadataWorker.queueRequest calls

\* The session ceiling stated in the MetadataWorker header comment.
MaxSessions == 12

Files    == {1}                    \* file keys of the full program
CapFiles == 1..(MaxSessions + 1)   \* file keys of the capacity scenario
SessionFiles == {1, 2}             \* file keys of the session scenario

NoRunner == 0
NoRun    == 0
NoLoop   == 0

VARIABLES
  rn,                 \* Seq of PythonRunner objects (fields of the class)
  wk,                 \* Seq of worker processes (OS side): state, stdin, stdout
  qs,                 \* Seq of executeQuery calls (QueuedQuery + promise state)
  micro,              \* the promise microtask queue
  sessions,           \* SessionManager.sessions: file key -> runner
  runs,               \* Seq of SqlExecutor runs (locals of executeQuery + events sent)
  runningQueries,     \* SqlExecutor.runningQueries: set of runIds
  runningResultSets,  \* SqlExecutor.runningResultSets: runId -> set of statement indexes
  cancelledRuns,      \* SqlExecutor.cancelledRuns
  ops,                \* Seq of close/reconnect invocations and the calls they await
  mw                  \* the MetadataWorker object (fields of the class)

vars == <<rn, wk, qs, micro, sessions, runs, runningQueries, runningResultSets,
          cancelledRuns, ops, mw>>

\* The whole state as one record, so that a handler is a function from state
\* to state and a handler that calls another is a composition.
S == [rn |-> rn, wk |-> wk, qs |-> qs, micro |-> micro, sessions |-> sessions,
      runs |-> runs, runningQueries |-> runningQueries,
      runningResultSets |-> runningResultSets, cancelledRuns |-> cancelledRuns,
      ops |-> ops, mw |-> mw]

Commit(s) ==
  /\ rn' = s.rn /\ wk' = s.wk /\ qs' = s.qs /\ micro' = s.micro
  /\ sessions' = s.sessions /\ runs' = s.runs
  /\ runningQueries' = s.runningQueries
  /\ runningResultSets' = s.runningResultSets
  /\ cancelledRuns' = s.cancelledRuns
  /\ ops' = s.ops
  /\ mw' = s.mw

Holds(s) ==
  /\ rn = s.rn /\ wk = s.wk /\ qs = s.qs /\ micro = s.micro
  /\ sessions = s.sessions /\ runs = s.runs
  /\ runningQueries = s.runningQueries
  /\ runningResultSets = s.runningResultSets
  /\ cancelledRuns = s.cancelledRuns
  /\ ops = s.ops
  /\ mw = s.mw

\* ------------------------------------------------------------ Map helpers
EmptyMap == <<>>
MapHas(m, k) == k \in DOMAIN m
MapSet(m, k, v) == [x \in (DOMAIN m) \cup {k} |-> IF x = k THEN v ELSE m[x]]
MapDel(m, k) == [x \in (DOMAIN m) \ {k} |-> m[x]]

\* ------------------------------------------------------------ microtasks
\* A token is a suspended continuation: k its kind, a the object it belongs
\* to, b the value it resumes with, n the promise hops still ahead of it.
Tok(k, a, b, n) == [k |-> k, a |-> a, b |-> b, n |-> n]
Enq(s, tok) == [s EXCEPT !.micro = Append(@, tok)]

\* ------------------------------------------------------------- protocol
MsgTypes ==
  {"CONNECT_RESULT", "EXECUTE_RESULT", "RECONNECT_RESULT", "CLOSE_RESULT", "ERROR"}

ResponseType(type) ==
  CASE type = "CONNECT" -> "CONNECT_RESULT"
    [] type = "EXECUTE" -> "EXECUTE_RESULT"
    [] type = "RECONNECT" -> "RECONNECT_RESULT"
    [] type = "CLOSE" -> "CLOSE_RESULT"
    [] OTHER -> "ERROR"

Msg(type, success) == [type |-> type, success |-> success]
Cmd(type, id) == [type |-> type, id |-> id]

NoHandler == [kind |-> "none", type |-> "", id |-> 0, rt |-> ""]
OkHandler(type, id, rt)  == [kind |-> "ok",  type |-> type, id |-> id, rt |-> rt]
ErrHandler(type, id, rt) == [kind |-> "err", type |-> type, id |-> id, rt |-> rt]

Settled == {"resolved", "rejected"}

\* --------------------------------------------------------- PythonRunner
\* constructor: fields as initialised at lines 58-77; file and creator are the
\* registry key and the run that awaits start(), connect the state of the
\* promise start() returned, execLog the EXECUTE commands written so far,
\* cancelled and cancelledAt that cancel() was called and how many runs had
\* been started by then, awaitingAtExit the commands that were awaiting their
\* response when the 'exit' event was handled, connectAnswer the outcome of
\* the CONNECT command as the response handler saw it, failedAt how many
\* runs had been started when start() was rejected.  outputBuffer is the text
\* received and not yet split into lines, fed all the text received so far
\* and delivered the values handleStdout passed to handleMessage.  fired
\* lists the handlers handleMessage has called, as <<command, call, kind>>,
\* received the bytes of the data events handled so far.
InitRunner(file, creator) ==
  [process |-> FALSE, isReady |-> FALSE, readyResolved |-> FALSE,
   waiters |-> <<>>, handlers |-> [t \in MsgTypes |-> NoHandler],
   queryQueue |-> <<>>, isExecutingQuery |-> FALSE,
   file |-> file, creator |-> creator, connect |-> "none",
   cancelled |-> FALSE, cancelledAt |-> 0, execLog |-> <<>>,
   awaitingAtExit |-> {}, connectAnswer |-> "none", failedAt |-> 0,
   outputBuffer |-> <<>>, fed |-> <<>>, delivered |-> <<>>, fired |-> <<>>,
   received |-> <<>>]

InitWorker == [state |-> "none", stdin |-> <<>>, stdout |-> <<>>]

WorkerAlive(w) == w.state \in {"booting", "running"}

\* new PythonRunner(...)
NewRunner(s, file, creator) ==
  [s EXCEPT !.rn = Append(@, InitRunner(file, creator)),
            !.wk = Append(@, InitWorker)]

\* start(dsn): spawn, attach the handlers, register the CONNECT step on
\* readyPromise.  The promise it returns stays pending.
Start(s, r) ==
  [s EXCEPT !.rn[r].process = TRUE,
            !.rn[r].connect = "pending",
            !.rn[r].waiters = Append(@, Tok("connect", r, "", 0)),
            !.wk[r].state = "booting"]

IsRunning(s, r) == s.rn[r].process /\ s.rn[r].isReady

\* A promise of the runner is settled: the continuation awaiting it is queued.
\*   CONNECT: the .then/.catch of start() (lines 113-120)
\*   EXECUTE: processQueryQueue after its await (lines 286-310)
\*   RECONNECT: reconnect() after its second await (lines 332-333)
\*   CLOSE: close() after its await (lines 338-340)
SettleCall(s, type, id, outcome) ==
  CASE type = "CONNECT"   -> Enq(s, Tok("connected", id, outcome, 0))
    [] type = "EXECUTE"   -> Enq(s, Tok("pqq", id, outcome, 0))
    [] type = "RECONNECT" -> Enq(s, Tok("reconnected", id, outcome, 0))
    [] type = "CLOSE"     -> Enq(s, Tok("closed", id, outcome, 0))

\* every earlier executeQuery call on runner r has settled
EarlierSettled(s, r, q) ==
  \A p \in 1..(q - 1) : s.qs[p].runner = r => s.qs[p].status \in Settled

\* stdin.write: bytes written to a process that is gone are lost (the write
\* does not throw; the stream reports the error asynchronously).
Write(s, r, cmd) ==
  LET s1 == IF cmd.type = "EXECUTE"
            THEN [s EXCEPT !.rn[r].execLog = Append(@, cmd.id),
                           !.qs[cmd.id].sent = TRUE,
                           !.qs[cmd.id].inOrder = EarlierSettled(s, r, cmd.id),
                           !.qs[cmd.id].afterCancel =
                              IF s.qs[cmd.id].run = NoRun THEN FALSE
                              ELSE s.runs[s.qs[cmd.id].run].wasCancelled]
            ELSE s
  IN IF WorkerAlive(s.wk[r])
     THEN [s1 EXCEPT !.wk[r].stdin = Append(@, cmd)]
     ELSE s1

SendCommand(s, r, type, id) ==
  LET rt == ResponseType(type) IN
  IF ~s.rn[r].process
  THEN SettleCall(s, type, id, "rejected")
  ELSE Write([s EXCEPT !.rn[r].handlers =
                 [@ EXCEPT ![rt] = OkHandler(type, id, rt),
                           !["ERROR"] = ErrHandler(type, id, rt)]],
             r, Cmd(type, id))

\* handleMessage with handlers that do not remove their counterpart (without
\* lines 219 and 225)
HandleMessageKeep(s, r, msg) ==
  IF msg.type = "READY"
  THEN IF s.rn[r].readyResolved
       THEN [s EXCEPT !.rn[r].isReady = TRUE]
       ELSE [s EXCEPT !.rn[r].isReady = TRUE,
                      !.rn[r].readyResolved = TRUE,
                      !.rn[r].waiters = <<>>,
                      !.micro = @ \o s.rn[r].waiters]
  ELSE LET h == s.rn[r].handlers[msg.type] IN
       IF h.kind = "none" THEN s
       ELSE LET outcome == IF h.kind = "err" THEN "rejected"
                           ELSE IF msg.success THEN "success" ELSE "failure"
                s1 == [s EXCEPT !.rn[r].handlers =
                          [@ EXCEPT ![msg.type] = NoHandler],
                                !.rn[r].connectAnswer =
                                   IF h.type = "CONNECT" THEN outcome ELSE @,
                                !.rn[r].fired = Append(@, <<h.type, h.id, h.kind>>)]
            IN SettleCall(s1, h.type, h.id, outcome)

\* handleMessage
HandleMessage(s, r, msg) ==
  IF msg.type = "READY"
  THEN IF s.rn[r].readyResolved
       THEN [s EXCEPT !.rn[r].isReady = TRUE]
       ELSE [s EXCEPT !.rn[r].isReady = TRUE,
                      !.rn[r].readyResolved = TRUE,
                      !.rn[r].waiters = <<>>,
                      !.micro = @ \o s.rn[r].waiters]
  ELSE LET h == s.rn[r].handlers[msg.type] IN
       IF h.kind = "none" THEN s
       ELSE LET outcome == IF h.kind = "err" THEN "rejected"
                           ELSE IF msg.success THEN "success" ELSE "failure"
                other == IF h.kind = "err" THEN h.rt ELSE "ERROR"
                s1 == [s EXCEPT !.rn[r].handlers =
                          [@ EXCEPT ![other] = NoHandler, ![msg.type] = NoHandler],
                                !.rn[r].connectAnswer =
                                   IF h.type = "CONNECT" THEN outcome ELSE @,
                                !.rn[r].fired = Append(@, <<h.type, h.id, h.kind>>)]
            IN SettleCall(s1, h.type, h.id, outcome)

\* handleStdout for one complete line
HandleStdout(s, r) ==
  HandleMessage([s EXCEPT !.wk[r].stdout = Tail(@)], r, Head(s.wk[r].stdout))


\* ------------------------------------------------ stdout as characters
\* The text a worker prints, over an alphabet that has a digit, a letter,
\* a blank and the newline.  A string is a sequence of characters.
Chars == {"1", "x", " ", "\n"}

\* String.prototype.indexOf("\n"), counted from 1; 0 when there is none
IndexOfNewline(str) ==
  IF \E i \in 1..Len(str) : str[i] = "\n"
  THEN CHOOSE i \in 1..Len(str) :
         str[i] = "\n" /\ \A j \in 1..(i - 1) : str[j] # "\n"
  ELSE 0

\* String.prototype.trim()
RECURSIVE Trim(_)
Trim(str) ==
  IF str = <<>> THEN str
  ELSE IF Head(str) \in {" ", "\n"} THEN Trim(Tail(str))
  ELSE IF str[Len(str)] \in {" ", "\n"} THEN Trim(SubSeq(str, 1, Len(str) - 1))
  ELSE str

\* JSON.parse succeeds: on the numbers 1, 11, 111, ... and on a string, which
\* is any text without a quote between two quotes (blanks around the value
\* are accepted; the empty text, a letter and a blank inside the number are
\* syntax errors)
IsJson(str) ==
  LET v == Trim(str)
  IN \/ v # <<>> /\ \A i \in 1..Len(v) : v[i] = "1"
     \/ /\ Len(v) >= 2 /\ v[1] = "\"" /\ v[Len(v)] = "\""
        /\ \A i \in 2..(Len(v) - 1) : v[i] # "\""

\* handleMessage for a parsed number: it is no READY message and no handler
\* is registered for its (undefined) type
HandleValue(s, r, v) ==
  [s EXCEPT !.rn[r].delivered = Append(@, v)]

\* the while loop of handleStdout without the `continue` after a failed
\* JSON.parse: the first malformed line ends the processing of the data
RECURSIVE ProcessBufferStop(_, _)
ProcessBufferStop(s, r) ==
  LET buf == s.rn[r].outputBuffer
      k   == IndexOfNewline(buf)
  IN IF k = 0 THEN s
     ELSE LET line == Trim(SubSeq(buf, 1, k - 1))
              s1   == [s EXCEPT !.rn[r].outputBuffer = SubSeq(buf, k + 1, Len(buf))]
          IN IF line = <<>> THEN ProcessBufferStop(s1, r)
             ELSE IF IsJson(line)
                  THEN ProcessBufferStop(HandleValue(s1, r, Trim(line)), r)
                  ELSE s1

\* the while loop of handleStdout (lines 133-147)
RECURSIVE ProcessBuffer(_, _)
ProcessBuffer(s, r) ==
  LET buf == s.rn[r].outputBuffer
      k   == IndexOfNewline(buf)
  IN IF k = 0 THEN s
     ELSE LET line == Trim(SubSeq(buf, 1, k - 1))
              s1   == [s EXCEPT !.rn[r].outputBuffer = SubSeq(buf, k + 1, Len(buf))]
          IN IF line = <<>> THEN ProcessBuffer(s1, r)
             ELSE IF IsJson(line)
                  THEN ProcessBuffer(HandleValue(s1, r, Trim(line)), r)
                  ELSE ProcessBuffer(s1, r)

\* handleStdout(data)
HandleData(s, r, data) ==
  ProcessBuffer([s EXCEPT !.rn[r].outputBuffer = @ \o data,
                          !.rn[r].fed = @ \o data], r)

\* The bytes a worker prints.  The quote and the newline are one byte each
\* and denoted by their character; C3 A9 is the UTF-8 encoding of the letter
\* U+00E9.
Bytes == {"\"", "C3", "A9", "\n"}

\* Buffer.prototype.toString(): UTF-8 decoding of the bytes of one data
\* event.  A lead byte without its continuation byte and a continuation
\* byte without a lead byte are each replaced by U+FFFD.
RECURSIVE BufferToString(_)
BufferToString(b) ==
  IF b = <<>> THEN <<>>
  ELSE IF Head(b) = "C3"
       THEN IF Len(b) >= 2 /\ b[2] = "A9"
            THEN <<"U+00E9">> \o BufferToString(SubSeq(b, 3, Len(b)))
            ELSE <<"U+FFFD">> \o BufferToString(Tail(b))
       ELSE IF Head(b) = "A9"
            THEN <<"U+FFFD">> \o BufferToString(Tail(b))
            ELSE <<Head(b)>> \o BufferToString(Tail(b))

\* handleStdout(data) for a Buffer: line 129 decodes the data, then the loop
HandleBytes(s, r, b) ==
  HandleData([s EXCEPT !.rn[r].received = @ \o b], r, BufferToString(b))

\* ------------------------------------------------- the per-session queue
\* One executeQuery call: the QueuedQuery (resultSetId, onStarted of run/idx)
\* and the state of the promise the call returned.  started counts the
\* invocations of onStarted, startedOk says the promise was still pending at
\* each of them, sent that EXECUTE was written for it, inOrder that every
\* earlier call had settled by then, atDequeue that at each onStarted every
\* earlier call had settled and EXECUTE was not yet written, afterCancel
\* that EXECUTE was written when cancelQuery had already marked its run, why
\* how it was settled.  loop is the MetadataWorker.processQueue invocation
\* that awaits the call, if one does.
NewQuery(r, rsid, run, idx) ==
  [runner |-> r, rsid |-> rsid, run |-> run, idx |-> idx,
   status |-> "awaitReady", why |-> "", started |-> 0, startedOk |-> TRUE,
   sent |-> FALSE, inOrder |-> TRUE, atDequeue |-> TRUE,
   afterCancel |-> FALSE, loop |-> NoLoop]

Emit(s, run, name, idx) ==
  [s EXCEPT !.runs[run].log = Append(@, <<name, idx>>)]

\* query.resolve / query.reject: the promise of the executeQuery call settles;
\* a run awaiting it resumes two promise hops later (an async function that
\* returns a promise adopts it through one extra job); a processQueue
\* invocation of the MetadataWorker awaits it through fetchTables or
\* fetchColumns and processRequest.
SettleQuery(s, q, status, why) ==
  IF s.qs[q].status \in Settled THEN s
  ELSE LET s1 == [s EXCEPT !.qs[q].status = status, !.qs[q].why = why]
       IN IF s.qs[q].run # NoRun THEN Enq(s1, Tok("loop", q, why, 1))
          ELSE IF s.qs[q].loop # NoLoop THEN Enq(s1, Tok("refreshed", q, why, 2))
          ELSE s1

\* the onStarted callback of the query (sqlExecutor.ts lines 230-240 for a run)
OnStarted(s, q) ==
  LET s1 == [s EXCEPT !.qs[q].started = @ + 1,
                      !.qs[q].startedOk = @ /\ (s.qs[q].status \notin Settled),
                      !.qs[q].atDequeue =
                         @ /\ ~s.qs[q].sent
                           /\ EarlierSettled(s, s.qs[q].runner, q)]
  IN IF s.qs[q].run = NoRun THEN s1
     ELSE Emit(s1, s.qs[q].run, "ResultStarted", s.qs[q].idx)

\* processQueryQueue without the single-flight guard of line 266
ProcessQueryQueueEager(s, r) ==
  IF s.rn[r].queryQueue = <<>> THEN s
  ELSE LET q  == Head(s.rn[r].queryQueue)
           s1 == [s EXCEPT !.rn[r].queryQueue = Tail(@),
                           !.rn[r].isExecutingQuery = TRUE,
                           !.qs[q].status = "inflight"]
       IN SendCommand(OnStarted(s1, q), r, "EXECUTE", q)

\* processQueryQueue without the onStarted call of lines 275-277
ProcessQueryQueueSilent(s, r) ==
  IF s.rn[r].isExecutingQuery THEN s
  ELSE IF s.rn[r].queryQueue = <<>> THEN s
  ELSE LET q  == Head(s.rn[r].queryQueue)
           s1 == [s EXCEPT !.rn[r].queryQueue = Tail(@),
                           !.rn[r].isExecutingQuery = TRUE,
                           !.qs[q].status = "inflight"]
       IN SendCommand(s1, r, "EXECUTE", q)

\* processQueryQueue up to its await
ProcessQueryQueue(s, r) ==
  IF s.rn[r].isExecutingQuery THEN s
  ELSE IF s.rn[r].queryQueue = <<>> THEN s
  ELSE LET q  == Head(s.rn[r].queryQueue)
           s1 == [s EXCEPT !.rn[r].queryQueue = Tail(@),
                           !.rn[r].isExecutingQuery = TRUE,
                           !.qs[q].status = "inflight"]
       IN SendCommand(OnStarted(s1, q), r, "EXECUTE", q)

\* processQueryQueue after its await, with a finally block that only resets
\* the flag (without line 309)
PqqResumeNoDrain(s, q, outcome) ==
  LET r  == s.qs[q].runner
      s1 == IF outcome = "rejected"
            THEN SettleQuery(s, q, "rejected", "error")
            ELSE SettleQuery(s, q, "resolved", outcome)
  IN [s1 EXCEPT !.rn[r].isExecutingQuery = FALSE]

\* processQueryQueue after its await: resolve or reject, then the finally block
PqqResume(s, q, outcome) ==
  LET r  == s.qs[q].runner
      s1 == IF outcome = "rejected"
            THEN SettleQuery(s, q, "rejected", "error")
            ELSE SettleQuery(s, q, "resolved", outcome)
  IN ProcessQueryQueue([s1 EXCEPT !.rn[r].isExecutingQuery = FALSE], r)

\* executeQuery that invokes onStarted when the query is submitted
ExecuteQueryEager(s, r, rsid, run, idx) ==
  LET q  == Len(s.qs) + 1
      s1 == OnStarted([s EXCEPT !.qs = Append(@, NewQuery(r, rsid, run, idx))], q)
  IN IF s.rn[r].readyResolved
     THEN Enq(s1, Tok("push", q, "", 0))
     ELSE [s1 EXCEPT !.rn[r].waiters = Append(@, Tok("push", q, "", 0))]

\* executeQuery up to `await this.readyPromise`
ExecuteQuery(s, r, rsid, run, idx) ==
  LET q  == Len(s.qs) + 1
      s1 == [s EXCEPT !.qs = Append(@, NewQuery(r, rsid, run, idx))]
  IN IF s.rn[r].readyResolved
     THEN Enq(s1, Tok("push", q, "", 0))
     ELSE [s1 EXCEPT !.rn[r].waiters = Append(@, Tok("push", q, "", 0))]

\* executeQuery after the await: push and drain
PushResume(s, q) ==
  LET r == s.qs[q].runner
  IN ProcessQueryQueue([s EXCEPT !.rn[r].queryQueue = Append(@, q),
                                 !.qs[q].status = "queued"], r)

RECURSIVE RejectEach(_, _, _, _)
RejectEach(s, queue, ids, why) ==
  IF queue = <<>> THEN s
  ELSE LET q == Head(queue)
       IN RejectEach(IF s.qs[q].rsid \in ids
                     THEN SettleQuery(s, q, "rejected", why) ELSE s,
                     Tail(queue), ids, why)

\* clearPendingQueries that also resets the in-flight flag, as cancel() does
ClearPendingQueriesReset(s, r, ids) ==
  LET keep == SelectSeq(s.rn[r].queryQueue, LAMBDA q : s.qs[q].rsid \notin ids)
      s1   == RejectEach(s, s.rn[r].queryQueue, ids, "clear")
  IN [s1 EXCEPT !.rn[r].queryQueue = keep, !.rn[r].isExecutingQuery = FALSE]

\* clearPendingQueries(resultSetIds)
ClearPendingQueries(s, r, ids) ==
  LET keep == SelectSeq(s.rn[r].queryQueue, LAMBDA q : s.qs[q].rsid \notin ids)
      s1   == RejectEach(s, s.rn[r].queryQueue, ids, "clear")
  IN [s1 EXCEPT !.rn[r].queryQueue = keep]

AllRsids(s) == {s.qs[q].rsid : q \in 1..Len(s.qs)}

\* process.kill(): the OS process is gone; what it had already written to its
\* stdout stays readable, what it had not yet read from stdin is lost.
Kill(s, r) ==
  [s EXCEPT !.wk[r].state = IF WorkerAlive(s.wk[r]) THEN "killed" ELSE @,
            !.wk[r].stdin = <<>>]

\* cancel() without `this.queryQueue = []` (line 353)
CancelKeepQueue(s, r) ==
  LET s1 == RejectEach(s, s.rn[r].queryQueue, AllRsids(s), "cancel")
      s2 == [s1 EXCEPT !.rn[r].isExecutingQuery = FALSE,
                       !.rn[r].cancelled = TRUE,
                       !.rn[r].cancelledAt = Len(s.runs)]
  IN IF s.rn[r].process
     THEN [Kill(s2, r) EXCEPT !.rn[r].process = FALSE, !.rn[r].isReady = FALSE]
     ELSE s2

\* cancel()
Cancel(s, r) ==
  LET s1 == RejectEach(s, s.rn[r].queryQueue, AllRsids(s), "cancel")
      s2 == [s1 EXCEPT !.rn[r].queryQueue = <<>>,
                       !.rn[r].isExecutingQuery = FALSE,
                       !.rn[r].cancelled = TRUE,
                       !.rn[r].cancelledAt = Len(s.runs)]
  IN IF s.rn[r].process
     THEN [Kill(s2, r) EXCEPT !.rn[r].process = FALSE, !.rn[r].isReady = FALSE]
     ELSE s2

\* the 'exit' handler of start() (lines 98-101), run when the process dies
OnExit(s, r) ==
  [s EXCEPT !.wk[r].state = "exited", !.wk[r].stdin = <<>>,
            !.rn[r].isReady = FALSE,
            !.rn[r].awaitingAtExit =
               {<<h.type, h.id>> : h \in {s.rn[r].handlers[t] : t \in
                   {u \in MsgTypes : s.rn[r].handlers[u].kind = "ok"}}}]

\* the 'error' handler of start() (lines 104-107), run when the process could
\* not be spawned: the promise start() returned is rejected
OnError(s, r) ==
  SettleCall([s EXCEPT !.wk[r].state = "failed"], "CONNECT", r, "rejected")

\* ------------------------------------------------------- SessionManager
\* getOrCreateSession up to its first await.  An existing running session is
\* returned (the caller resumes one job later); otherwise a new PythonRunner
\* is constructed and start() spawns its worker at once.
GetOrCreateSession(s, run, f) ==
  IF MapHas(s.sessions, f) /\ IsRunning(s, s.sessions[f])
  THEN Enq(s, Tok("gotSession", run, s.sessions[f], 0))
  ELSE Start(NewRunner(s, f, run), Len(s.rn) + 1)

\* MetadataWorker.createSession after `await this.pythonRunner.start(dsn)`
\* (metadataWorker.ts lines 188-192): on failure the runner field is reset;
\* then the finally block of the ensureSession call that started the creation
\* (line 169), and every ensureSession call that awaits sessionCreationPromise
\* returns or throws to the processQueue invocation that awaits it.
SessionCreated(s, r, ok) ==
  [s EXCEPT !.mw.pythonRunner = IF ok THEN @ ELSE NoRunner,
            !.mw.creating = NoRunner,
            !.mw.waiters = <<>>,
            !.micro = @ \o [i \in 1..Len(s.mw.waiters) |->
                              Tok("ensured", s.mw.waiters[i],
                                  IF ok THEN "ok" ELSE "failed", 1)]]

\* start() settles (lines 113-120); getOrCreateSession resumes (lines 401-406):
\* on success the session is stored and returned, on failure it throws.
ConnectedResume(s, r, outcome) ==
  LET ok  == outcome = "success"
      s1  == [s EXCEPT !.rn[r].connect = IF ok THEN "ok" ELSE "failed",
                       !.rn[r].failedAt = IF ok THEN @ ELSE Len(s.runs)]
      run == s.rn[r].creator
  IN IF run = NoRun
     THEN IF s.mw.creating = r THEN SessionCreated(s1, r, ok) ELSE s1
     ELSE IF ok
          THEN Enq([s1 EXCEPT !.sessions = MapSet(@, s.rn[r].file, r)],
                   Tok("gotSession", run, r, 0))
          ELSE Enq(s1, Tok("gotSession", run, NoRunner, 0))

\* cancelSession that cancels the sessions of all files
RECURSIVE CancelEach(_, _)
CancelEach(s, fs) ==
  IF fs = {} THEN s
  ELSE LET g == CHOOSE x \in fs : \A y \in fs : x <= y
       IN CancelEach(Cancel(s, s.sessions[g]), fs \ {g})

CancelSessionAll(s, f) ==
  IF MapHas(s.sessions, f)
  THEN [CancelEach(s, DOMAIN s.sessions) EXCEPT !.sessions = EmptyMap]
  ELSE s

\* cancelSession(fileUri)
CancelSession(s, f) ==
  IF MapHas(s.sessions, f)
  THEN [Cancel(s, s.sessions[f]) EXCEPT !.sessions = MapDel(@, f)]
  ELSE s

\* ------------------------------------------------- close and reconnect
\* One entry per invocation of closeSession, closeAllSessions or
\* reconnectSession, and one per PythonRunner.close() or reconnect() call the
\* invocation awaits (parent is the invocation).  status is the state of the
\* promise the invocation or call returned, result what it resolved with.
\* wrote says that close() or reconnect() wrote its command, alive that the
\* worker process was alive when close() was called, during the executeQuery
\* calls whose EXECUTE was written and unsettled when the command was written.
NoOp == 0

NewOp(kind, file, r, parent) ==
  [kind |-> kind, file |-> file, runner |-> r, parent |-> parent,
   status |-> "pending", result |-> "", wrote |-> FALSE, alive |-> FALSE,
   during |-> {}]

\* the executeQuery calls of runner r whose EXECUTE is written and unsettled
OutstandingOn(s, r) ==
  {q \in 1..Len(s.qs) :
     s.qs[q].runner = r /\ s.qs[q].sent /\ s.qs[q].status \notin Settled}

\* the promise of a close() or reconnect() call settles; the invocation that
\* awaits it resumes one job later
SettleOp(s, c, status, result) ==
  Enq([s EXCEPT !.ops[c].status = status, !.ops[c].result = result],
      Tok("opCont", c, "", 0))

\* close() up to its await (lines 336-338)
Close(s, r, parent) ==
  LET c  == Len(s.ops) + 1
      s1 == [s EXCEPT !.ops = Append(@,
                [NewOp("close", s.rn[r].file, r, parent)
                   EXCEPT !.wrote = s.rn[r].process,
                          !.alive = WorkerAlive(s.wk[r]),
                          !.during = IF s.rn[r].process
                                     THEN OutstandingOn(s, r) ELSE {}])]
  IN IF s.rn[r].process
     THEN SendCommand(s1, r, "CLOSE", c)
     ELSE SettleOp(s1, c, "resolved", "")

\* close() after its await (lines 339-340): sendCommand rejected, or
\* this.process.kill() is called; it throws when cancel() has set process to
\* null in the meantime
CloseResume(s, c, outcome) ==
  LET r == s.ops[c].runner
  IN IF outcome = "rejected" \/ ~s.rn[r].process
     THEN SettleOp(s, c, "rejected", outcome)
     ELSE SettleOp([Kill(s, r) EXCEPT !.rn[r].process = FALSE],
                   c, "resolved", outcome)

\* reconnect() up to `await this.readyPromise` (line 330)
Reconnect(s, r, parent) ==
  LET c  == Len(s.ops) + 1
      s1 == [s EXCEPT !.ops = Append(@, NewOp("reconnect", s.rn[r].file, r, parent))]
  IN IF s.rn[r].readyResolved
     THEN Enq(s1, Tok("reconnect", c, "", 0))
     ELSE [s1 EXCEPT !.rn[r].waiters = Append(@, Tok("reconnect", c, "", 0))]

\* reconnect() between its awaits (line 332)
ReconnectSend(s, c) ==
  LET r == s.ops[c].runner
  IN SendCommand([s EXCEPT !.ops[c].wrote = s.rn[r].process,
                           !.ops[c].during = IF s.rn[r].process
                                             THEN OutstandingOn(s, r) ELSE {}],
                 r, "RECONNECT", c)

\* reconnect() after its second await (line 333)
ReconnectResume(s, c, outcome) ==
  IF outcome = "rejected" THEN SettleOp(s, c, "rejected", outcome)
  ELSE SettleOp(s, c, "resolved", outcome)

\* reconnectSession that restarts the session: cancel(), then reconnect()
ReconnectSessionRestart(s, f) ==
  LET p == Len(s.ops) + 1
  IN IF MapHas(s.sessions, f)
     THEN Reconnect(Cancel([s EXCEPT !.ops = Append(@,
                               NewOp("reconnectSession", f, s.sessions[f], NoOp))],
                           s.sessions[f]),
                    s.sessions[f], p)
     ELSE [s EXCEPT !.ops = Append(@,
              [NewOp("reconnectSession", f, NoRunner, NoOp)
                 EXCEPT !.status = "done", !.result = "failure"])]

\* reconnectSession(fileUri) up to its await (lines 412-422)
ReconnectSession(s, f) ==
  LET p == Len(s.ops) + 1
  IN IF MapHas(s.sessions, f)
     THEN Reconnect([s EXCEPT !.ops = Append(@,
                        NewOp("reconnectSession", f, s.sessions[f], NoOp))],
                    s.sessions[f], p)
     ELSE [s EXCEPT !.ops = Append(@,
              [NewOp("reconnectSession", f, NoRunner, NoOp)
                 EXCEPT !.status = "done", !.result = "failure"])]

\* closeSession(fileUri) up to its await (lines 444-447)
CloseSession(s, f) ==
  LET p == Len(s.ops) + 1
  IN IF MapHas(s.sessions, f)
     THEN Close([s EXCEPT !.ops = Append(@,
                    NewOp("closeSession", f, s.sessions[f], NoOp))],
                s.sessions[f], p)
     ELSE [s EXCEPT !.ops = Append(@,
              [NewOp("closeSession", f, NoRunner, NoOp) EXCEPT !.status = "done"])]

\* session.close() for every registered session (lines 453-455).  The calls
\* go to different workers, so the order of the map's values is immaterial.
RECURSIVE CloseEach(_, _, _)
CloseEach(s, fs, p) ==
  IF fs = {} THEN s
  ELSE LET f == CHOOSE x \in fs : \A y \in fs : x <= y
       IN CloseEach(Close(s, s.sessions[f], p), fs \ {f}, p)

\* closeAllSessions() up to its await (lines 452-456)
CloseAllSessions(s) ==
  LET p  == Len(s.ops) + 1
      s1 == [s EXCEPT !.ops = Append(@, NewOp("closeAll", 0, NoRunner, NoOp))]
  IN IF DOMAIN s.sessions = {}
     THEN [s1 EXCEPT !.ops[p].status = "done", !.sessions = EmptyMap]
     ELSE CloseEach(s1, DOMAIN s.sessions, p)

\* ------------------------------------------------------ MetadataWorker
\* (metadataWorker.ts)  pythonRunner, requestQueue and isProcessing are the
\* fields of the class; creating is the runner whose start() the pending
\* sessionCreationPromise awaits (NoRunner when the field is null) and
\* waiters the processQueue invocations awaiting that promise; due says that
\* minRequestInterval has passed since lastRequestTime; loops holds the
\* position of every processQueue invocation, issued counts the
\* queueRequest calls, stopped says that a stop() call has completed, and
\* spawnedAtStop and queriesAtStop how many runners and executeQuery calls
\* existed at that moment.
InitMetadataWorker ==
  [pythonRunner |-> NoRunner, creating |-> NoRunner, waiters |-> <<>>,
   requestQueue |-> <<>>, isProcessing |-> FALSE, due |-> TRUE,
   loops |-> <<>>, issued |-> 0, stopped |-> FALSE,
   spawnedAtStop |-> 0, queriesAtStop |-> 0]

MetadataRunner(s) == s.mw.pythonRunner

\* ensureSession (lines 153-171) with createSession up to its await (lines
\* 176-188), called by the processQueue invocation L
EnsureSession(s, L) ==
  IF s.mw.creating # NoRunner
  THEN [s EXCEPT !.mw.waiters = Append(@, L)]
  ELSE IF MetadataRunner(s) # NoRunner /\ IsRunning(s, MetadataRunner(s))
  THEN Enq(s, Tok("ensured", L, "ok", 1))
  ELSE LET r == Len(s.rn) + 1
       IN Start(NewRunner([s EXCEPT !.mw.pythonRunner = r,
                                    !.mw.creating = r,
                                    !.mw.waiters = <<L>>], 0, NoRun), r)

\* the finally block of processQueue (lines 339-344)
LoopFinally(s, L) ==
  [s EXCEPT !.mw.isProcessing = FALSE, !.mw.loops[L].pc = "done"]

\* the loop body from the shift to the next await (lines 320-336).  shift()
\* of an empty queue gives undefined.  processRequest throws when there is no
\* running session and when the request is undefined; the catch block calls
\* ensureSession when there is no running session.
LoopRequest(s, L) ==
  LET has == s.mw.requestQueue # <<>>
      r   == MetadataRunner(s)
      q   == Len(s.qs) + 1
      s1  == [s EXCEPT !.mw.requestQueue = IF has THEN Tail(@) ELSE @,
                       !.mw.due = FALSE]
  IN IF r = NoRunner \/ ~IsRunning(s, r)
     THEN EnsureSession([s1 EXCEPT !.mw.loops[L].pc = "recreate"], L)
     ELSE IF ~has THEN LoopFinally(s1, L)
     ELSE [ExecuteQuery([s1 EXCEPT !.mw.loops[L].pc = "request"],
                        r, <<0, q>>, NoRun, 0)
             EXCEPT !.qs[q].loop = L]

\* the while loop from its condition (lines 312-318)
LoopIter(s, L) ==
  IF s.mw.requestQueue = <<>> THEN LoopFinally(s, L)
  ELSE IF ~s.mw.due THEN [s EXCEPT !.mw.loops[L].pc = "sleep"]
  ELSE LoopRequest(s, L)

\* processQueue after an ensureSession call returned or threw (lines 310,
\* 329-335)
EnsuredResume(s, L, res) ==
  IF res = "ok" THEN LoopIter(s, L) ELSE LoopFinally(s, L)

\* processQueue after processRequest returned or threw (lines 323-336)
RefreshedResume(s, q) ==
  LET L == s.qs[q].loop
      r == MetadataRunner(s)
  IN IF s.qs[q].status = "rejected" /\ (r = NoRunner \/ ~IsRunning(s, r))
     THEN EnsureSession([s EXCEPT !.mw.loops[L].pc = "recreate"], L)
     ELSE LoopIter(s, L)

\* processQueue up to its first await (lines 296-310)
ProcessQueue(s) ==
  IF s.mw.isProcessing \/ s.mw.requestQueue = <<>> THEN s
  ELSE EnsureSession([s EXCEPT !.mw.isProcessing = TRUE,
                               !.mw.loops = Append(@, [pc |-> "ensure"])],
                     Len(s.mw.loops) + 1)

\* queueRequest (lines 259-277) for a request that is no duplicate
QueueRequest(s) ==
  ProcessQueue([s EXCEPT !.mw.issued = @ + 1,
                         !.mw.requestQueue = Append(@, s.mw.issued + 1)])

\* stop() from line 143 on
StopEnd(s, p) ==
  [s EXCEPT !.ops[p].status = "done",
            !.mw.requestQueue = <<>>,
            !.mw.isProcessing = FALSE,
            !.mw.stopped = TRUE,
            !.mw.spawnedAtStop = Len(s.rn),
            !.mw.queriesAtStop = Len(s.qs)]

\* MetadataWorker.stop() up to its await (lines 131-136)
Stop(s) ==
  LET p == Len(s.ops) + 1
  IN IF MetadataRunner(s) # NoRunner
     THEN Close([s EXCEPT !.ops = Append(@, NewOp("stop", 0, MetadataRunner(s), NoOp))],
                MetadataRunner(s), p)
     ELSE StopEnd([s EXCEPT !.ops = Append(@, NewOp("stop", 0, NoRunner, NoOp))], p)

ChildrenOf(s, p) == {c \in 1..Len(s.ops) : s.ops[c].parent = p}

\* the invocation resumes after the call it awaits has settled:
\*   reconnectSession (lines 422-428) returns the payload, or a failure result
\*   closeSession (line 448) deletes the key, or throws what close() threw
\*   closeAllSessions (lines 456-457) clears the map when every close() has
\*     resolved, and throws on the first one that rejected
\*   MetadataWorker.stop (metadataWorker.ts lines 136-147) catches what
\*     close() threw, resets its runner and goes on to its end
OpResume(s, c) ==
  LET p == s.ops[c].parent
      ok == s.ops[c].status = "resolved"
  IN CASE s.ops[p].status # "pending" -> s
       [] s.ops[p].kind = "reconnectSession" ->
            [s EXCEPT !.ops[p].status = "done",
                      !.ops[p].result = IF ok THEN s.ops[c].result ELSE "failure"]
       [] s.ops[p].kind = "closeSession" ->
            IF ok THEN [s EXCEPT !.ops[p].status = "done",
                                 !.sessions = MapDel(@, s.ops[p].file)]
            ELSE [s EXCEPT !.ops[p].status = "failed"]
       [] s.ops[p].kind = "stop" ->
            StopEnd([s EXCEPT !.mw.pythonRunner = NoRunner], p)
       [] OTHER ->
            IF ~ok THEN [s EXCEPT !.ops[p].status = "failed"]
            ELSE IF \A d \in ChildrenOf(s, p) : s.ops[d].status = "resolved"
                 THEN [s EXCEPT !.ops[p].status = "done", !.sessions = EmptyMap]
                 ELSE s

\* ---------------------------------------------------------- SqlExecutor
\* One invocation of SqlExecutor.executeQuery: its locals (file, the n
\* statements, the loop index i, batchFailed, session), the cancellation token
\* of its progress notification (dismissed), and the events it has sent to the
\* webview (log).  submitted counts its session.executeQuery calls and
\* wasCancelled records that cancelQuery marked it.
InitRun(f, n) ==
  [file |-> f, n |-> n, i |-> 0, batchFailed |-> FALSE, stage |-> "creating",
   session |-> NoRunner, dismissed |-> FALSE, wasCancelled |-> FALSE,
   submitted |-> 0, log |-> <<>>]

RECURSIVE EmitRange(_, _, _, _, _)
EmitRange(s, run, name, from, to) ==
  IF from >= to THEN s
  ELSE EmitRange(Emit(s, run, name, from), run, name, from + 1, to)

\* the finally block of the progress task (lines 389-394)
Finish(s, run) ==
  [s EXCEPT !.runningQueries = @ \ {run},
            !.runningResultSets = MapDel(@, run),
            !.cancelledRuns = @ \ {run},
            !.runs[run].stage = "done"]

\* the statement loop without the batchFailed check of lines 203-211
LoopNoAbort(s, run) ==
  LET R == s.runs[run]
      stop == run \in s.cancelledRuns \/ R.dismissed
  IN IF R.i < R.n /\ ~stop
     THEN ExecuteQuery([s EXCEPT !.runningResultSets[run] = @ \cup {R.i},
                                 !.runs[run].stage = "running",
                                 !.runs[run].submitted = @ + 1],
                       R.session, <<run, R.i>>, run, R.i)
     ELSE Finish(Emit(s, run, "RunComplete", 0), run)

\* the statement loop (lines 182-365) from index i up to its next await, or
\* to RUN_COMPLETE and the finally block
Loop(s, run) ==
  LET R == s.runs[run]
      stop == run \in s.cancelledRuns \/ R.dismissed
  IN IF R.i < R.n /\ ~stop /\ ~R.batchFailed
     THEN ExecuteQuery([s EXCEPT !.runningResultSets[run] = @ \cup {R.i},
                                 !.runs[run].stage = "running",
                                 !.runs[run].submitted = @ + 1],
                       R.session, <<run, R.i>>, run, R.i)
     ELSE LET s1 == IF R.i < R.n /\ ~stop
                    THEN EmitRange(s, run, "ResultCancelled", R.i, R.n)
                    ELSE s
          IN Finish(Emit(s1, run, "RunComplete", 0), run)

\* executeQuery: tracking, getOrCreateSession (lines 112-125)
StartRun(s, f, n) ==
  LET run == Len(s.runs) + 1
  IN GetOrCreateSession(
       [s EXCEPT !.runs = Append(@, InitRun(f, n)),
                 !.runningQueries = @ \cup {run},
                 !.runningResultSets = MapSet(@, run, {})],
       run, f)

\* executeQuery after getOrCreateSession settled, without the
\* RESULT_SET_PENDING loop of lines 166-178
GotSessionNoPending(s, run, r) ==
  IF r = NoRunner
  THEN [s EXCEPT !.runningQueries = @ \ {run}, !.runs[run].stage = "done"]
  ELSE Loop(Emit([s EXCEPT !.runs[run].session = r], run, "RunStarted", 0),
            run)

\* executeQuery after getOrCreateSession settled: the catch of lines 129-139,
\* or RUN_STARTED, RESULT_SET_PENDING for every statement, and the loop
GotSession(s, run, r) ==
  IF r = NoRunner
  THEN [s EXCEPT !.runningQueries = @ \ {run}, !.runs[run].stage = "done"]
  ELSE Loop(EmitRange(Emit([s EXCEPT !.runs[run].session = r],
                           run, "RunStarted", 0),
                      run, "ResultPending", 0, s.runs[run].n),
            run)

\* the loop after the await, with a failure branch that also cancels the
\* session of the file
LoopResumeCancel(s, q) ==
  LET run == s.qs[q].run
      idx == s.qs[q].idx
      ok  == s.qs[q].status = "resolved" /\ s.qs[q].why = "success"
      s1  == IF ok
             THEN Emit(Emit(Emit(s, run, "ResultSchema", idx),
                            run, "ResultRows", idx), run, "ResultComplete", idx)
             ELSE CancelSession(Emit(s, run, "ResultError", idx), s.runs[run].file)
      s2  == [s1 EXCEPT !.runningResultSets =
                           IF MapHas(@, run) THEN [@ EXCEPT ![run] = @ \ {idx}] ELSE @,
                        !.runs[run].batchFailed = @ \/ ~ok,
                        !.runs[run].i = idx + 1]
  IN Loop(s2, run)

\* the loop after `await session.executeQuery` (lines 254-364)
LoopResume(s, q) ==
  LET run == s.qs[q].run
      idx == s.qs[q].idx
      ok  == s.qs[q].status = "resolved" /\ s.qs[q].why = "success"
      s1  == IF ok
             THEN Emit(Emit(Emit(s, run, "ResultSchema", idx),
                            run, "ResultRows", idx), run, "ResultComplete", idx)
             ELSE Emit(s, run, "ResultError", idx)
      s2  == [s1 EXCEPT !.runningResultSets =
                           IF MapHas(@, run) THEN [@ EXCEPT ![run] = @ \ {idx}] ELSE @,
                        !.runs[run].batchFailed = @ \/ ~ok,
                        !.runs[run].i = idx + 1]
  IN Loop(s2, run)

\* cancelQuery up to its await (lines 499-513)
CancelQuery(s, run) ==
  Enq(CancelSession([s EXCEPT !.cancelledRuns = @ \cup {run},
                              !.runs[run].wasCancelled = TRUE],
                    s.runs[run].file),
      Tok("cancelCont", run, "", 0))

\* cancelQuery after its await without the loop of lines 517-522
CancelResumeRunOnly(s, run) ==
  Emit(s, run, "RunCancelled", 0)

\* cancelQuery after its await (lines 515-525)
CancelResume(s, run) ==
  LET ids == IF MapHas(s.runningResultSets, run)
             THEN s.runningResultSets[run] ELSE {}
      RECURSIVE EmitSet(_, _)
      EmitSet(st, set) ==
        IF set = {} THEN st
        ELSE LET i == CHOOSE x \in set : \A y \in set : x <= y
             IN EmitSet(Emit(st, run, "ResultCancelled", i), set \ {i})
  IN Emit(EmitSet(s, ids), run, "RunCancelled", 0)

\* ------------------------------------------------------- the event loop
\* One job of the microtask queue.
RunToken(s, tok) ==
  CASE tok.k = "connect"    -> SendCommand(s, tok.a, "CONNECT", tok.a)
    [] tok.k = "connected"  -> ConnectedResume(s, tok.a, tok.b)
    [] tok.k = "push"       -> PushResume(s, tok.a)
    [] tok.k = "pqq"        -> PqqResume(s, tok.a, tok.b)
    [] tok.k = "loop"       -> LoopResume(s, tok.a)
    [] tok.k = "gotSession" -> GotSession(s, tok.a, tok.b)
    [] tok.k = "cancelCont" -> CancelResume(s, tok.a)
    [] tok.k = "closed"     -> CloseResume(s, tok.a, tok.b)
    [] tok.k = "reconnect"  -> ReconnectSend(s, tok.a)
    [] tok.k = "reconnected" -> ReconnectResume(s, tok.a, tok.b)
    [] tok.k = "opCont"     -> OpResume(s, tok.a)
    [] tok.k = "ensured"    -> EnsuredResume(s, tok.a, tok.b)
    [] tok.k = "refreshed"  -> RefreshedResume(s, tok.a)

\* The microtask checkpoint that ends every macrotask: the jobs queued by the
\* handler, and by the jobs themselves, run in FIFO order until none is left.
RECURSIVE Drain(_)
Drain(s) ==
  IF s.micro = <<>> THEN s
  ELSE LET tok == Head(s.micro)
           s0  == [s EXCEPT !.micro = Tail(@)]
       IN Drain(IF tok.n > 0 THEN Enq(s0, [tok EXCEPT !.n = @ - 1])
                ELSE RunToken(s0, tok))

\* One macrotask: the handler, then the microtask checkpoint.
Task(s) == Commit(Drain(s))

\* ------------------------------------------------------------ the worker
\* the worker starts up and prints READY
WorkerBoot ==
  \E r \in 1..Len(wk) :
    /\ wk[r].state = "booting"
    /\ Task([S EXCEPT !.wk[r].state = "running",
                        !.wk[r].stdout = Append(@, Msg("READY", TRUE))])

Answers(cmd) ==
  { Msg(ResponseType(cmd.type), TRUE), Msg(ResponseType(cmd.type), FALSE),
    Msg("ERROR", FALSE) }

\* the worker reads one command and prints its answer
WorkerRespond ==
  \E r \in 1..Len(wk) :
    /\ wk[r].state = "running" /\ wk[r].stdin # <<>>
    /\ \E m \in Answers(Head(wk[r].stdin)) :
         Task([S EXCEPT !.wk[r].stdin = Tail(@),
                          !.wk[r].stdout = Append(@, m)])

\* the worker process dies by itself; the 'exit' event is handled
WorkerExit ==
  \E r \in 1..Len(wk) :
    /\ WorkerAlive(wk[r])
    /\ Task(OnExit(S, r))

\* the process cannot be spawned; the 'error' event is handled
SpawnError ==
  \E r \in 1..Len(wk) :
    /\ wk[r].state = "booting"
    /\ Task(OnError(S, r))

\* a stdout 'data' event carrying one line
Deliver ==
  \E r \in 1..Len(wk) :
    /\ wk[r].stdout # <<>>
    /\ Task(HandleStdout(S, r))

\* --------------------------------------------------- initial states
Empty ==
  [rn |-> <<>>, wk |-> <<>>, qs |-> <<>>, micro |-> <<>>, sessions |-> EmptyMap,
   runs |-> <<>>, runningQueries |-> {}, runningResultSets |-> EmptyMap,
   cancelledRuns |-> {}, ops |-> <<>>, mw |-> InitMetadataWorker]

Init == Holds(Empty)

\* ------------------------------------------- the PythonRunner on its own
\* One runner, constructed and started, driven through its public methods.
RunnerInit == Holds(Start(NewRunner(Empty, 0, NoRun), 1))

ApiExecuteQuery ==
  /\ Len(qs) < MaxQueries
  /\ Task(ExecuteQuery(S, 1, <<0, Len(qs) + 1>>, NoRun, 0))

ApiClearPendingQueries ==
  \E ids \in SUBSET {<<0, q>> : q \in 1..MaxQueries} :
    /\ ids # {}
    /\ Task(ClearPendingQueries(S, 1, ids))

ApiCancel ==
  /\ ~rn[1].cancelled
  /\ Task(Cancel(S, 1))

RunnerNext ==
  \/ ApiExecuteQuery
  \/ ApiClearPendingQueries
  \/ ApiCancel
  \/ WorkerBoot
  \/ WorkerRespond
  \/ WorkerExit
  \/ SpawnError
  \/ Deliver

SpecRunner == RunnerInit /\ [][RunnerNext]_vars

\* ------------------------------------------------------ the whole program
RECURSIVE TotalStmts(_)
TotalStmts(rs) == IF rs = <<>> THEN 0 ELSE Head(rs).n + TotalStmts(Tail(rs))

UserExecute ==
  \E f \in Files, n \in 1..MaxStmts :
    /\ Len(runs) < MaxRuns /\ n + TotalStmts(runs) <= MaxStmts
    /\ Task(StartRun(S, f, n))

HasEvent(log, name, idx) == \E p \in 1..Len(log) : log[p] = <<name, idx>>

\* the webview posts USER_CANCELLED_RUN for a run it has been told about
\* (once per run)
UserCancel ==
  \E run \in 1..Len(runs) :
    /\ run \in runningQueries
    /\ HasEvent(runs[run].log, "RunStarted", 0)
    /\ ~runs[run].wasCancelled
    /\ Task(CancelQuery(S, run))

\* the user dismisses the progress notification of a run: its token reports
\* isCancellationRequested from then on
UserDismiss ==
  \E run \in 1..Len(runs) :
    /\ runs[run].stage = "running" /\ ~runs[run].dismissed
    /\ Task([S EXCEPT !.runs[run].dismissed = TRUE])

\* Reliable workers: every command is answered.
Next ==
  \/ UserExecute
  \/ UserCancel
  \/ WorkerBoot
  \/ WorkerRespond
  \/ Deliver

Spec == Init /\ [][Next]_vars

\* Workers may crash and progress notifications may be dismissed.
FaultsExecute ==
  \E f \in Files, n \in 1..MaxStmts :
    /\ Len(runs) < MaxFaultRuns /\ n + TotalStmts(runs) <= MaxStmts
    /\ Task(StartRun(S, f, n))

FaultsNext ==
  \/ FaultsExecute
  \/ UserCancel
  \/ UserDismiss
  \/ WorkerBoot
  \/ WorkerRespond
  \/ WorkerExit
  \/ SpawnError
  \/ Deliver

SpecFaults == Init /\ [][FaultsNext]_vars

\* ------------------------------------------------ the capacity scenario
\* One file after another is opened and run, each on a worker that answers
\* every command with success, so that every session stays open.
OpenSessions(s) ==
  {f \in DOMAIN s.sessions : IsRunning(s, s.sessions[f])}

CapExecute ==
  \E f \in CapFiles, n \in {1, 2} :
    /\ \A run \in 1..Len(runs) : runs[run].stage = "done"
    /\ f = Len(runs) + 1
    /\ Task(StartRun(S, f, n))

CapRespond ==
  \E r \in 1..Len(wk) :
    /\ wk[r].state = "running" /\ wk[r].stdin # <<>>
    /\ Task([S EXCEPT !.wk[r].stdin = Tail(@),
                      !.wk[r].stdout =
                         Append(@, Msg(ResponseType(Head(wk[r].stdin).type), TRUE))])

CapNext ==
  \/ CapExecute
  \/ WorkerBoot
  \/ CapRespond
  \/ Deliver

SpecCap == Init /\ [][CapNext]_vars

\* ------------------------------------------- runs of a single statement
\* More invocations, each of one statement, so that session creations and
\* cancellations of several runs overlap.
OverlapExecute ==
  \E f \in Files :
    /\ Len(runs) < MaxOverlapRuns
    /\ Task(StartRun(S, f, 1))

OverlapNext ==
  \/ OverlapExecute
  \/ UserCancel
  \/ WorkerBoot
  \/ WorkerRespond
  \/ Deliver

SpecOverlap == Init /\ [][OverlapNext]_vars

\* ------------------------------------------- the transport on its own
\* One runner whose worker prints arbitrary text, received in data events of
\* up to MaxChunk characters.
Chunks == UNION {[1..n -> Chars] : n \in 1..MaxChunk}

StdoutData ==
  \E data \in Chunks :
    /\ Len(rn[1].fed) + Len(data) <= MaxChars
    /\ Task(HandleData(S, 1, data))

StdoutNext == StdoutData

SpecStdout == RunnerInit /\ [][StdoutNext]_vars

\* One runner whose worker prints arbitrary bytes, received in data events of
\* up to MaxChunk bytes.
ByteChunks == UNION {[1..n -> Bytes] : n \in 1..MaxChunk}

BytesData ==
  \E b \in ByteChunks :
    /\ Len(rn[1].received) + Len(b) <= MaxBytes
    /\ Task(HandleBytes(S, 1, b))

BytesNext == BytesData

SpecBytes == RunnerInit /\ [][BytesNext]_vars

\* ------------------------------------------- sessions of several files
\* Each of two files is run once, with one statement, and the webview sends
\* up to MaxRequests cancel, reconnect and disconnect requests
\* (handleWebviewMessage, lines 42-55; reconnect and disconnect act on the
\* file of the active editor).  Workers may die; a death counts as a request.
Invocations == {p \in 1..Len(ops) : ops[p].parent = NoOp}
Requests ==
  Cardinality(Invocations)
    + Cardinality({k \in 1..Len(runs) : runs[k].wasCancelled})
    + Cardinality({r \in 1..Len(wk) : wk[r].state = "exited"})

SessionExecute ==
  \E f \in SessionFiles :
    /\ \A k \in 1..Len(runs) : runs[k].file # f
    /\ Task(StartRun(S, f, 1))

SessionCancel == Requests < MaxRequests /\ UserCancel

SessionReconnect ==
  \E f \in SessionFiles :
    /\ Requests < MaxRequests
    /\ Task(ReconnectSession(S, f))

SessionDisconnect ==
  \E f \in SessionFiles :
    /\ Requests < MaxRequests
    /\ Task(CloseSession(S, f))

SessionExit == Requests < MaxRequests /\ WorkerExit

SessionNext ==
  \/ SessionExecute
  \/ SessionCancel
  \/ SessionReconnect
  \/ SessionDisconnect
  \/ WorkerBoot
  \/ WorkerRespond
  \/ SessionExit
  \/ Deliver

SpecSession == Init /\ [][SessionNext]_vars

\* ------------------------------------------- reconnecting a session
\* Runs of one statement on one file, each started when no session is being
\* created, with cancel and reconnect requests; every command is answered.
ReconnectExecute ==
  \E f \in Files :
    /\ Len(runs) < MaxSessionRuns
    /\ \A r \in 1..Len(rn) : rn[r].connect # "pending"
    /\ Task(StartRun(S, f, 1))

UserReconnect ==
  \E f \in Files :
    /\ Requests < MaxRequests
    /\ Task(ReconnectSession(S, f))

ReconnectNext ==
  \/ ReconnectExecute
  \/ UserReconnect
  \/ SessionCancel
  \/ WorkerBoot
  \/ WorkerRespond
  \/ Deliver

SpecReconnect == Init /\ [][ReconnectNext]_vars

\* ------------------------------------------- teardown of the extension
\* Runs of one statement on one file, disconnect requests, and
\* the disposal of the extension (SqlExecutor.dispose, sqlExecutor.ts lines
\* 1337-1340; extension.ts calls it from deactivate() and from a disposable
\* of the context's subscriptions), which ends the user's commands.
Disposed == \E p \in Invocations : ops[p].kind = "closeAll"

DisposeExecute ==
  \E f \in Files :
    /\ Len(runs) < MaxSessionRuns /\ ~Disposed
    /\ Task(StartRun(S, f, 1))

UserDisconnect ==
  \E f \in Files :
    /\ Cardinality(Invocations) < MaxOps /\ ~Disposed
    /\ Task(CloseSession(S, f))

Dispose ==
  /\ Cardinality(Invocations) < MaxOps
  /\ Task(CloseAllSessions(S))

DisposeNext ==
  \/ DisposeExecute
  \/ UserDisconnect
  \/ Dispose
  \/ WorkerBoot
  \/ WorkerRespond
  \/ WorkerExit
  \/ Deliver

SpecDispose == Init /\ [][DisposeNext]_vars

\* ------------------------------------------- translation of a result
\* What the loop sends to the webview for one settled statement (lines
\* 254-364).  An optional field of the payload is a record: p says that it is
\* present (neither undefined nor null), v is its value.  An empty array is
\* present, and true in a condition.  A row is a sequence of <<column, value>>
\* pairs.
Opt(p, v) == [p |-> p, v |-> v]

Results ==
  [settled : {"resolved"}, success : BOOLEAN, hasResults : BOOLEAN,
   columns : {Opt(FALSE, <<>>), Opt(TRUE, <<>>), Opt(TRUE, <<"c">>)},
   rows : {Opt(FALSE, <<>>), Opt(TRUE, <<>>), Opt(TRUE, << << <<"c", "1">> >> >>)},
   message : {Opt(FALSE, ""), Opt(TRUE, "m")}]
  \cup
  [settled : {"rejected"}, success : {FALSE}, hasResults : {FALSE},
   columns : {Opt(FALSE, <<>>)}, rows : {Opt(FALSE, <<>>)},
   message : {Opt(TRUE, "m")}]

Event(name, idx, payload) == [name |-> name, idx |-> idx, payload |-> payload]

MessageRow(res) ==
  << << <<"Message",
          IF res.message.p /\ res.message.v # "" THEN res.message.v
          ELSE "Query executed successfully">> >> >>

\* the translation with a first branch taken only when there is a row
TranslateNonEmpty(idx, res) ==
  IF res.settled = "rejected" THEN <<Event("ResultError", idx, <<>>)>>
  ELSE IF ~res.success THEN <<Event("ResultError", idx, <<>>)>>
  ELSE IF res.hasResults /\ res.columns.p /\ res.rows.p /\ res.rows.v # <<>>
       THEN <<Event("ResultSchema", idx, res.columns.v),
              Event("ResultRows", idx, res.rows.v),
              Event("ResultComplete", idx, <<>>)>>
       ELSE <<Event("ResultSchema", idx, <<"Message">>),
              Event("ResultRows", idx, MessageRow(res)),
              Event("ResultComplete", idx, <<>>)>>

\* lines 254-364: the catch block, the failure branch, the branch of a result
\* with rows, the branch of a result without
Translate(idx, res) ==
  IF res.settled = "rejected" THEN <<Event("ResultError", idx, <<>>)>>
  ELSE IF ~res.success THEN <<Event("ResultError", idx, <<>>)>>
  ELSE IF res.hasResults /\ res.columns.p /\ res.rows.p
       THEN <<Event("ResultSchema", idx, res.columns.v),
              Event("ResultRows", idx, res.rows.v),
              Event("ResultComplete", idx, <<>>)>>
       ELSE <<Event("ResultSchema", idx, <<"Message">>),
              Event("ResultRows", idx, MessageRow(res)),
              Event("ResultComplete", idx, <<>>)>>

\* One run on a session; its statements settle one after another with any
\* result.  qs keeps what each statement settled with.
TranslateInit ==
  Holds([Empty EXCEPT !.runs = <<[InitRun(1, MaxResults) EXCEPT !.stage = "running"]>>])

TranslateStep ==
  \E res \in Results :
    /\ runs[1].i < MaxResults
    /\ Commit([S EXCEPT !.qs = Append(@, [run |-> 1, idx |-> runs[1].i,
                                         result |-> res]),
                        !.runs[1].log = @ \o Translate(runs[1].i, res),
                        !.runs[1].i = @ + 1])

TranslateNext == TranslateStep

SpecTranslate == TranslateInit /\ [][TranslateNext]_vars

\* ------------------------------------------- the MetadataWorker
\* Refresh requests are queued (queueRequest, called by the refresh timer,
\* the store's events and the commands) until stop() is called; time passes,
\* the throttle timer of a sleeping processQueue invocation fires, and the
\* worker process answers or dies.
Stopping == \E p \in 1..Len(ops) : ops[p].kind = "stop"

MetadataQueue ==
  /\ mw.issued < MaxRefreshes /\ ~Stopping
  /\ Task(QueueRequest(S))

MetadataStop ==
  /\ Len(ops) < MaxOps
  /\ Task(Stop(S))

\* minRequestInterval has passed since the last request
MetadataTick ==
  /\ ~mw.due
  /\ Task([S EXCEPT !.mw.due = TRUE])

\* the timer of sleep() fires (lines 316-318)
MetadataWake ==
  \E L \in 1..Len(mw.loops) :
    /\ mw.loops[L].pc = "sleep" /\ mw.due
    /\ Task(LoopRequest(S, L))

MetadataNext ==
  \/ MetadataQueue
  \/ MetadataStop
  \/ MetadataTick
  \/ MetadataWake
  \/ WorkerBoot
  \/ WorkerRespond
  \/ WorkerExit
  \/ Deliver

SpecMetadata == Init /\ [][MetadataNext]_vars

\* =============================================================== claims
Queries       == 1..Len(qs)
Runners       == 1..Len(rn)
Runs          == 1..Len(runs)
QueriesOf(r)  == {q \in Queries : qs[q].runner = r}
Outstanding(r) ==
  {q \in QueriesOf(r) : qs[q].sent /\ qs[q].status \notin Settled}
InFlight(r)   == {q \in QueriesOf(r) : qs[q].status = "inflight"}
Increasing(seq) == \A i, j \in 1..Len(seq) : i < j => seq[i] < seq[j]

\* C1: on one PythonRunner the EXECUTE commands are written in the order of
\* the executeQuery calls, the EXECUTE of a call is written only when every
\* earlier call has settled, and at most one EXECUTE is outstanding.
FifoSingleFlight ==
  \A r \in Runners :
    /\ Increasing(rn[r].execLog)
    /\ \A q \in QueriesOf(r) : qs[q].inOrder
    /\ Cardinality(Outstanding(r)) <= 1

FifoSingleFlightWitness ==
  /\ Len(rn[1].execLog) >= 2
  /\ qs[rn[1].execLog[1]].status = "resolved"
  /\ Outstanding(1) # {}
  /\ rn[1].queryQueue # <<>>

\* C2: onStarted of a query runs at most once and only while its promise is
\* pending; a query that settled without having been cancelled while queued
\* had it run exactly once; a query removed from the queue by
\* clearPendingQueries or cancel never has it run.
Removed(q) == qs[q].why \in {"clear", "cancel"}

OnStartedOnce ==
  \A q \in Queries :
    /\ qs[q].started <= 1 /\ qs[q].startedOk
    /\ (qs[q].status \in Settled /\ ~Removed(q)) => qs[q].started = 1
    /\ Removed(q) => qs[q].started = 0

OnStartedOnceWitness ==
  \E a, b, c \in Queries :
    /\ qs[a].status = "resolved" /\ qs[a].started = 1
    /\ qs[b].why = "clear" /\ qs[c].why = "cancel"

\* C3: once cancel() has run, no executeQuery call of that runner is still
\* waiting for its EXECUTE result: the in-flight promise has been rejected.
CancelRejectsInFlight ==
  \A r \in Runners : rn[r].cancelled => InFlight(r) = {}

\* C4: a command that was awaiting its response when the worker exited has
\* been rejected once the output the worker left behind has been read.
CallPending(r, call) ==
  IF call[1] = "EXECUTE" THEN qs[call[2]].status \notin Settled
  ELSE rn[r].connect = "pending"

ExitRejectsPending ==
  \A r \in Runners :
    (wk[r].state = "exited" /\ wk[r].stdout = <<>>) =>
       \A call \in rn[r].awaitingAtExit : ~CallPending(r, call)

\* C8: a clearPendingQueries call made while a query is in flight rejects
\* exactly the queued entries whose resultSetId is in the given set, leaves
\* every other call, the in-flight flag, the worker and the commands written
\* as they were, keeps the remaining queue in its order, and an entry it
\* removed never has EXECUTE written nor onStarted run.
ClearApiIds == SUBSET {<<0, q>> : q \in 1..MaxQueries}

ClearStep(ids) ==
  /\ InFlight(1) # {}
  /\ Task(ClearPendingQueries(S, 1, ids))

Queued(ids) ==
  {rn[1].queryQueue[p] : p \in
     {x \in 1..Len(rn[1].queryQueue) : qs[rn[1].queryQueue[x]].rsid \in ids}}

ClearPost(ids) ==
  /\ \A q \in Queued(ids) :
       qs'[q] = [qs[q] EXCEPT !.status = "rejected", !.why = "clear"]
  /\ \A q \in Queries \ Queued(ids) : qs'[q] = qs[q]
  /\ Len(qs') = Len(qs)
  /\ rn'[1].queryQueue =
       SelectSeq(rn[1].queryQueue, LAMBDA q : q \notin Queued(ids))
  /\ rn'[1].isExecutingQuery = rn[1].isExecutingQuery
  /\ rn'[1].execLog = rn[1].execLog
  /\ rn'[1].process = rn[1].process
  /\ rn'[1].handlers = rn[1].handlers
  /\ wk' = wk

ClearLeavesRestAlone ==
  /\ [][\A ids \in ClearApiIds : ClearStep(ids) => ClearPost(ids)]_vars
  /\ [](\A q \in Queries :
          qs[q].why = "clear" => (qs[q].started = 0 /\ ~qs[q].sent))

ClearLeavesRestAloneWitness ==
  \E a, b, c \in Queries :
    /\ a < b /\ b < c
    /\ qs[a].sent /\ qs[a].status = "resolved"
    /\ qs[b].why = "clear"
    /\ qs[c].sent /\ qs[c].started = 1

\* C5: for one registry key at most one session creation is in progress at a
\* time, so that overlapping getOrCreateSession calls for the key spawn one
\* worker and share its session.
OneSpawnPerKey ==
  \A a, b \in Runners :
    (rn[a].file = rn[b].file /\ rn[a].connect = "pending"
                             /\ rn[b].connect = "pending") => a = b

\* C6: the registry never holds more than MaxSessions open sessions.
SessionCeiling == Cardinality(OpenSessions(S)) <= MaxSessions

\* C7: once a statement of a run has failed, no later statement of the run is
\* submitted to the session, and ResultCancelled is emitted for each later
\* statement unless the run was cancelled by cancelQuery or its progress
\* notification was dismissed before the failure was handled, in which case
\* none is emitted for them.
Failed(run, i) ==
  \E q \in Queries :
    /\ qs[q].run = run /\ qs[q].idx = i
    /\ \/ qs[q].status = "rejected"
       \/ qs[q].status = "resolved" /\ qs[q].why # "success"

Later(run, i) == {j \in 0..(runs[run].n - 1) : j > i}

NotSubmitted(run, j) ==
  \A q \in Queries : ~(qs[q].run = run /\ qs[q].idx = j)

Stopped(run) == runs[run].wasCancelled \/ runs[run].dismissed

AfterCancel(r) ==
  {k \in Runs : k > rn[r].cancelledAt /\ runs[k].file = rn[r].file}

Spawned(k) == \E r \in Runners : rn[r].creator = k

CancelInvalidates ==
  \A r \in Runners :
    rn[r].cancelled =>
      /\ ~WorkerAlive(wk[r]) /\ ~IsRunning(S, r)
      /\ ~(MapHas(sessions, rn[r].file) /\ sessions[rn[r].file] = r)
      /\ \A k \in AfterCancel(r) : runs[k].session # r
      /\ \A k \in AfterCancel(r) :
           (\A j \in AfterCancel(r) : k <= j) => Spawned(k)

\* C10: when RunCancelled is emitted, every statement of the run that had been
\* submitted to the session already has a terminal result event, and no
\* ResultCancelled is emitted for a statement that had not been submitted.
Terminal == {"ResultComplete", "ResultError", "ResultCancelled"}

TerminalBefore(log, p, i) ==
  \E x \in 1..(p - 1) : log[x][1] \in Terminal /\ log[x][2] = i

CancelledAt(run) ==
  {p \in 1..Len(runs[run].log) : runs[run].log[p][1] = "RunCancelled"}

Quiescent ==
  \A r \in Runners :
    /\ wk[r].state # "booting"
    /\ wk[r].stdout = <<>>
    /\ wk[r].stdin = <<>>

\* C11: no run has two terminal run events (RunComplete, RunError or
\* RunCancelled), and once the workers have answered everything every run
\* that emitted RunStarted has one.
RunTerminal == {"RunComplete", "RunError", "RunCancelled"}

RunTerminals(run) ==
  {p \in 1..Len(runs[run].log) : runs[run].log[p][1] \in RunTerminal}

RunStartedBy(run) == HasEvent(runs[run].log, "RunStarted", 0)

OneRunTerminal ==
  \A run \in Runs :
    /\ Cardinality(RunTerminals(run)) <= 1
    /\ (Quiescent /\ RunStartedBy(run)) => RunTerminals(run) # {}

\* C12: a statement announced by ResultPending has at most one terminal result
\* event (ResultComplete, ResultError or ResultCancelled), no result event
\* after it, and has one once the workers have answered everything.
ResultEvent ==
  {"ResultStarted", "ResultSchema", "ResultRows",
   "ResultComplete", "ResultError", "ResultCancelled"}

ResultTerminals(run, i) ==
  {p \in 1..Len(runs[run].log) :
     runs[run].log[p][1] \in Terminal /\ runs[run].log[p][2] = i}

NothingAfterTerminal(run, i) ==
  \A p \in ResultTerminals(run, i) : \A x \in 1..Len(runs[run].log) :
    (x > p /\ runs[run].log[x][2] = i) => runs[run].log[x][1] \notin ResultEvent

OneResultTerminal ==
  \A run \in Runs : \A i \in 0..(runs[run].n - 1) :
    HasEvent(runs[run].log, "ResultPending", i) =>
      /\ Cardinality(ResultTerminals(run, i)) <= 1
      /\ NothingAfterTerminal(run, i)
      /\ Quiescent => ResultTerminals(run, i) # {}

\* C13: the values handed to handleMessage are exactly the complete lines
\* received that are valid JSON, in arrival order: blank and malformed lines
\* are dropped and do not keep the lines around them from being delivered.
RECURSIVE LinesOf(_)
LinesOf(str) ==
  LET k == IndexOfNewline(str)
  IN IF k = 0 THEN <<>>
     ELSE <<SubSeq(str, 1, k - 1)>> \o LinesOf(SubSeq(str, k + 1, Len(str)))

RECURSIVE Parsed(_)
Parsed(lines) ==
  IF lines = <<>> THEN <<>>
  ELSE (IF IsJson(Head(lines)) THEN <<Trim(Head(lines))>> ELSE <<>>)
         \o Parsed(Tail(lines))

ValidLinesDelivered ==
  rn[1].delivered = Parsed(LinesOf(rn[1].fed))

ValidLinesDeliveredWitness ==
  /\ rn[1].fed = <<"1", "\n", "x", "\n", "1", "\n">>
  /\ rn[1].delivered = << <<"1">>, <<"1">> >>
  /\ rn[1].outputBuffer = <<>>

\* C14: the promise of start() is resolved only after READY was received and
\* CONNECT was answered with success, and it is rejected when the process
\* could not be spawned, when the process exited before READY, and when
\* CONNECT was answered with a failure.
ExitedBeforeReady(r) ==
  wk[r].state = "exited" /\ wk[r].stdout = <<>> /\ ~rn[r].readyResolved

StartSettles ==
  \A r \in Runners :
    /\ rn[r].connect = "ok" =>
         (rn[r].readyResolved /\ rn[r].connectAnswer = "success")
    /\ wk[r].state = "failed" => rn[r].connect = "failed"
    /\ rn[r].connectAnswer \in {"failure", "rejected"} => rn[r].connect = "failed"
    /\ ExitedBeforeReady(r) => rn[r].connect = "failed"

\* C15: two statements of runs on the same file are executed by the same
\* worker unless the session of the earlier one was cancelled or its worker
\* died.
RunQueries == {q \in Queries : qs[q].run # NoRun /\ qs[q].sent}

Usable(r) == ~rn[r].cancelled /\ WorkerAlive(wk[r])

SameWorkerPerFile ==
  \A a, b \in RunQueries :
    (runs[qs[a].run].file = runs[qs[b].run].file
       /\ Usable(qs[a].runner) /\ Usable(qs[b].runner))
      => qs[a].runner = qs[b].runner

\* C16: the events of a run begin with RunStarted followed by ResultPending
\* for every statement in statement order, and no statement of the run is
\* submitted, started or sent to the worker before they have been emitted.
Announced(run) ==
  /\ Len(runs[run].log) >= runs[run].n + 1
  /\ runs[run].log[1] = <<"RunStarted", 0>>
  /\ \A i \in 0..(runs[run].n - 1) : runs[run].log[i + 2] = <<"ResultPending", i>>

PendingUpFront ==
  \A run \in Runs :
    /\ runs[run].log # <<>> => Announced(run)
    /\ (\E q \in Queries : qs[q].run = run) => Announced(run)

PendingUpFrontWitness ==
  \E run \in Runs :
    /\ runs[run].n >= 2 /\ Len(runs[run].log) >= runs[run].n + 2
    /\ runs[run].log[runs[run].n + 2] = <<"ResultStarted", 0>>
    /\ \E q \in Queries : qs[q].run = run /\ qs[q].sent

\* C17: ResultStarted of a statement is emitted when the session takes it off
\* its queue: never while it is waiting behind another query, only once every
\* earlier query of the session has settled, and before its EXECUTE is
\* written.
Waiting(q) == qs[q].status \in {"awaitReady", "queued"}

StartedAtDequeue ==
  \A q \in Queries :
    qs[q].run # NoRun =>
      /\ Waiting(q) => ~HasEvent(runs[qs[q].run].log, "ResultStarted", qs[q].idx)
      /\ ~Waiting(q) /\ ~Removed(q) =>
           HasEvent(runs[qs[q].run].log, "ResultStarted", qs[q].idx)
      /\ qs[q].atDequeue
      /\ qs[q].sent => qs[q].started = 1

StartedAtDequeueWitness ==
  \E a, b \in Queries :
    /\ qs[a].run # NoRun /\ qs[b].run # NoRun /\ qs[a].run # qs[b].run
    /\ qs[a].runner = qs[b].runner
    /\ qs[a].status = "inflight" /\ qs[a].sent
    /\ qs[b].status = "queued"
    /\ ~HasEvent(runs[qs[b].run].log, "ResultStarted", qs[b].idx)

\* C18: a cancel() call rejects every query that is in the queue with the
\* cancellation error, touches no other query and leaves the queue empty; a
\* query rejected that way never has onStarted run nor EXECUTE written.
InQueue == {rn[1].queryQueue[p] : p \in 1..Len(rn[1].queryQueue)}

CancelStep == Task(Cancel(S, 1))

CancelPost ==
  /\ \A q \in InQueue :
       qs'[q] = [qs[q] EXCEPT !.status = "rejected", !.why = "cancel"]
  /\ \A q \in Queries \ InQueue : qs'[q] = qs[q]
  /\ Len(qs') = Len(qs)
  /\ rn'[1].queryQueue = <<>>
  /\ rn'[1].execLog = rn[1].execLog

CancelEmptiesQueue ==
  /\ [][CancelStep => CancelPost]_vars
  /\ [](\A q \in Queries :
          qs[q].why = "cancel" => (qs[q].started = 0 /\ ~qs[q].sent))

CancelEmptiesQueueWitness ==
  /\ rn[1].cancelled /\ rn[1].queryQueue = <<>>
  /\ Cardinality({q \in Queries : qs[q].why = "cancel"}) >= 2
  /\ \E q \in Queries : qs[q].sent

\* C19: no EXECUTE is written for a statement of a run at a moment when
\* cancelQuery has already marked the run as cancelled.
NoExecuteAfterCancel ==
  \A q \in Queries : ~qs[q].afterCancel

\* C20: a session whose creation failed is never stored in the registry nor
\* handed to a run, the getOrCreateSession call that created it is rejected,
\* and the next getOrCreateSession call for its file spawns a new worker.
CreationFailed(r) == rn[r].connect = "failed" /\ rn[r].creator # NoRun

AfterFailure(r) ==
  {k \in Runs : k > rn[r].failedAt /\ runs[k].file = rn[r].file}

FailedCreationRetries ==
  \A r \in Runners :
    CreationFailed(r) =>
      /\ ~(MapHas(sessions, rn[r].file) /\ sessions[rn[r].file] = r)
      /\ \A k \in Runs : runs[k].session # r
      /\ runs[rn[r].creator].stage = "done" /\ runs[rn[r].creator].log = <<>>
      /\ \A k \in AfterFailure(r) :
           (\A j \in AfterFailure(r) : k <= j) => Spawned(k)

\* C21: EXECUTE is written for an executeQuery call only when the CONNECT of
\* its session has been answered, and once start() has been rejected no call
\* made before that has had EXECUTE written or is left pending when the
\* worker has nothing more to do.
ConnectFinished(r) == rn[r].connectAnswer # "none" \/ rn[r].connect # "pending"

ExecuteWaitsForConnect ==
  \A q \in Queries :
    LET r == qs[q].runner IN
      /\ qs[q].sent => ConnectFinished(r)
      /\ (rn[r].connect = "failed" /\ Quiescent /\ ~rn[r].cancelled) =>
            qs[q].status = "rejected" /\ ~qs[q].sent

\* C22: close() writes CLOSE only to a worker process that is alive; when
\* nothing is left for the workers to do, every closeSession invocation that
\* found a session has completed with that session's process gone and the
\* session no longer registered, and every closeAllSessions invocation has
\* completed with the same said of every session it found.
OpsAll == 1..Len(ops)

Gone(r) ==
  /\ ~rn[r].process
  /\ ~WorkerAlive(wk[r])
  /\ ~(MapHas(sessions, rn[r].file) /\ sessions[rn[r].file] = r)

CloseCompletes ==
  /\ \A c \in OpsAll : ops[c].wrote => ops[c].alive
  /\ Quiescent =>
       \A p \in OpsAll :
         /\ (ops[p].kind = "closeSession" /\ ops[p].runner # NoRunner) =>
               ops[p].status = "done" /\ Gone(ops[p].runner)
         /\ ops[p].kind = "closeAll" =>
               /\ ops[p].status = "done"
               /\ \A c \in OpsAll : ops[c].parent = p => Gone(ops[c].runner)

\* C23: the step in which an EXECUTE_RESULT with success=false is handled
\* spawns and kills nothing and leaves the registry as it was; the session's
\* flags are unchanged and, if queries were waiting, the first of them is
\* dequeued and its EXECUTE written.  A run started while the session that
\* answered so is registered and running gets that session, with no spawn.
FailedResult(q) == qs[q].status = "resolved" /\ qs[q].why = "failure"

FailureStep(q) ==
  /\ q \in Queries /\ qs[q].status = "inflight"
  /\ qs'[q].status = "resolved" /\ qs'[q].why = "failure"

FailureFrame(q) ==
  LET r == qs[q].runner IN
    /\ sessions' = sessions
    /\ Len(rn') = Len(rn)
    /\ \A x \in Runners : wk'[x].state = wk[x].state
                          /\ rn'[x].process = rn[x].process
                          /\ rn'[x].isReady = rn[x].isReady
    /\ rn[r].queryQueue # <<>> =>
         /\ rn'[r].queryQueue = Tail(rn[r].queryQueue)
         /\ qs'[Head(rn[r].queryQueue)].status = "inflight"
         /\ qs'[Head(rn[r].queryQueue)].sent

ReuseStep(r) ==
  /\ Len(runs') = Len(runs) + 1
  /\ MapHas(sessions, runs'[Len(runs')].file)
  /\ sessions[runs'[Len(runs')].file] = r
  /\ rn[r].process /\ rn[r].isReady
  /\ \E q \in QueriesOf(r) : FailedResult(q)

FailureKeepsSession ==
  [][ /\ \A q \in Queries : FailureStep(q) => FailureFrame(q)
      /\ \A r \in Runners : ReuseStep(r) =>
           Len(rn') = Len(rn) /\ runs'[Len(runs')].session = r ]_vars

FailureKeepsSessionWitness ==
  \E k \in Runs : \E q \in Queries :
    /\ FailedResult(q) /\ qs[q].run < k
    /\ runs[k].session = qs[q].runner
    /\ Len(rn) = 1
    /\ \E p \in QueriesOf(qs[q].runner) : p > q /\ qs[p].run = k /\ qs[p].sent

\* C24: the step that handles a reconnect request spawns and kills nothing
\* and leaves the registry and every queue as they were; when a session is
\* registered for the file, RECONNECT is written to that session's worker
\* (if it is alive) and its response handler registered, and otherwise the request completes
\* at once with a failure result.
ReconnectStep ==
  /\ Len(ops') > Len(ops)
  /\ ops'[Len(ops) + 1].kind = "reconnectSession"

ReconnectFrame ==
  /\ sessions' = sessions
  /\ Len(rn') = Len(rn)
  /\ \A x \in Runners :
       /\ wk'[x].state = wk[x].state
       /\ rn'[x].process = rn[x].process
       /\ rn'[x].queryQueue = rn[x].queryQueue
       /\ rn'[x].isExecutingQuery = rn[x].isExecutingQuery

ReconnectPost ==
  LET p == Len(ops) + 1
      f == ops'[p].file
  IN /\ ReconnectFrame
     /\ IF MapHas(sessions, f)
        THEN LET r == sessions[f] IN
               /\ ops'[p].status = "pending"
               /\ ops'[p + 1].kind = "reconnect" /\ ops'[p + 1].runner = r
               /\ rn'[r].handlers["RECONNECT_RESULT"] =
                    OkHandler("RECONNECT", p + 1, "RECONNECT_RESULT")
               /\ wk'[r].stdin = IF WorkerAlive(wk[r])
                                THEN Append(wk[r].stdin, Cmd("RECONNECT", p + 1))
                                ELSE wk[r].stdin
        ELSE /\ ops'[p].status = "done" /\ ops'[p].result = "failure"
             /\ Len(ops') = p
             /\ \A x \in Runners : wk'[x].stdin = wk[x].stdin

ReconnectKeepsSession == [][ReconnectStep => ReconnectPost]_vars

ReconnectKeepsSessionWitness ==
  \E p \in OpsAll :
    /\ ops[p].kind = "reconnect"
    /\ rn[ops[p].runner].queryQueue # <<>>
    /\ \E x \in 1..Len(wk[ops[p].runner].stdin) :
         wk[ops[p].runner].stdin[x] = Cmd("RECONNECT", p)

\* C25: every step acts on one file: the registry entry of any other file,
\* the runners created for it with their queues and flags, their worker
\* processes and their executeQuery calls are unchanged, and nothing is
\* created for it.  The file is that of the run started or cancelled and of
\* the reconnect or disconnect request handled in the step.
OtherUnchanged(f) ==
  \A g \in SessionFiles \ {f} :
    /\ MapHas(sessions', g) = MapHas(sessions, g)
    /\ MapHas(sessions, g) => sessions'[g] = sessions[g]
    /\ \A x \in Runners : rn[x].file = g =>
         /\ rn'[x] = rn[x] /\ wk'[x] = wk[x]
         /\ \A q \in QueriesOf(x) : qs'[q] = qs[q]
    /\ \A x \in (Len(rn) + 1)..Len(rn') : rn'[x].file # g
    /\ \A q \in (Len(qs) + 1)..Len(qs') : rn'[qs'[q].runner].file # g

StepOn(f) ==
  /\ Len(runs') > Len(runs) => runs'[Len(runs')].file = f
  /\ \A k \in Runs : (runs'[k].wasCancelled /\ ~runs[k].wasCancelled) =>
       runs[k].file = f
  /\ Len(ops') > Len(ops) => ops'[Len(ops) + 1].file = f

SessionsIndependent ==
  [][\E f \in SessionFiles : StepOn(f) /\ OtherUnchanged(f)]_vars

SessionsIndependentWitness ==
  \E x, y \in Runners :
    /\ rn[x].file # rn[y].file
    /\ rn[x].cancelled
    /\ MapHas(sessions, rn[y].file) /\ sessions[rn[y].file] = y
    /\ WorkerAlive(wk[y]) /\ InFlight(y) # {}

\* C26: for every settled statement the events sent for it are, in this
\* order: the schema with the result's columns, its rows, and ResultComplete
\* when the result has success, hasResults, columns and rows; a schema of
\* the one column Message, one row holding the message, and ResultComplete
\* when it has success and lacks one of the others; ResultError alone when
\* success is false or the call was rejected.
EventsOf(log, idx) == SelectSeq(log, LAMBDA ev : ev.idx = idx)
Names(evs) == [i \in 1..Len(evs) |-> evs[i].name]
HasRows(res) == res.hasResults /\ res.columns.p /\ res.rows.p
Succeeded(res) == res.settled = "resolved" /\ res.success

ResultTranslated ==
  \A q \in Queries :
    LET res == qs[q].result
        evs == EventsOf(runs[qs[q].run].log, qs[q].idx)
    IN /\ (Succeeded(res) /\ HasRows(res)) =>
            /\ Names(evs) = <<"ResultSchema", "ResultRows", "ResultComplete">>
            /\ evs[1].payload = res.columns.v /\ evs[2].payload = res.rows.v
       /\ (Succeeded(res) /\ ~HasRows(res)) =>
            /\ Names(evs) = <<"ResultSchema", "ResultRows", "ResultComplete">>
            /\ evs[1].payload = <<"Message">>
            /\ Len(evs[2].payload) = 1
            /\ Len(evs[2].payload[1]) = 1
            /\ evs[2].payload[1][1][1] = "Message"
       /\ ~Succeeded(res) => Names(evs) = <<"ResultError">>

ResultTranslatedWitness ==
  /\ Len(qs) = 2
  /\ Succeeded(qs[1].result) /\ ~HasRows(qs[1].result)
  /\ Succeeded(qs[2].result) /\ HasRows(qs[2].result)
  /\ qs[2].result.rows.v = <<>>
  /\ Len(runs[1].log) = 6

\* C27: of the handlers registered by one sendCommand call at most one is
\* ever called, and once one has been called neither of them is registered
\* any more.
SameCall(a, b) == a[1] = b[1] /\ a[2] = b[2]

Registered(r, call) ==
  \E ty \in MsgTypes :
    /\ rn[r].handlers[ty].kind # "none"
    /\ rn[r].handlers[ty].type = call[1] /\ rn[r].handlers[ty].id = call[2]

OneHandlerFires ==
  \A r \in Runners :
    LET fd == rn[r].fired IN
      /\ \A i, j \in 1..Len(fd) : SameCall(fd[i], fd[j]) => i = j
      /\ \A i \in 1..Len(fd) : ~Registered(r, fd[i])

\* the ERROR handler of a call has fired and the response to its command
\* arrived afterwards (it has been read and nothing is left to read)
OneHandlerFiresWitness ==
  \E r \in Runners : \E i \in 1..Len(rn[r].fired) :
    LET call == rn[r].fired[i] IN
      /\ call[1] = "EXECUTE" /\ call[3] = "err"
      /\ qs[call[2]].sent
      /\ wk[r].state = "running" /\ wk[r].stdin = <<>> /\ wk[r].stdout = <<>>
      /\ rn[r].connectAnswer = "none"

\* C28: on every transport at most one EXECUTE, at most one RECONNECT and at
\* most one CLOSE command is written and not yet settled, and the response
\* handler registered for a kind belongs to that command's call.
Unsettled(r, kind) ==
  {c \in OpsAll : /\ ops[c].kind = kind /\ ops[c].runner = r
                  /\ ops[c].wrote /\ ops[c].status = "pending"}

HandlerOf(r, kind, c) ==
  /\ rn[r].handlers[ResponseType(kind)].kind = "ok"
  /\ rn[r].handlers[ResponseType(kind)].id = c

OneCommandPerKind ==
  \A r \in Runners :
    /\ Cardinality(Outstanding(r)) <= 1
    /\ Cardinality(Unsettled(r, "reconnect")) <= 1
    /\ Cardinality(Unsettled(r, "close")) <= 1
    /\ \A c \in Unsettled(r, "close") :
         HandlerOf(r, "CLOSE", c) \/ rn[r].handlers["CLOSE_RESULT"].kind = "none"

\* C29: the step in which an ERROR message is read from a worker while an
\* EXECUTE written to it is unsettled rejects that query; after the step the
\* query that headed the queue is in flight with its EXECUTE written and the
\* rest of the queue follows in order, or, the queue being empty, the
\* in-flight flag is clear.
ErrorStep(r) ==
  /\ r \in Runners
  /\ wk[r].stdout # <<>> /\ Head(wk[r].stdout).type = "ERROR"
  /\ wk'[r].stdout = Tail(wk[r].stdout)
  /\ Outstanding(r) # {}

ErrorPost(r) ==
  /\ \A q \in Outstanding(r) : qs'[q].status = "rejected"
  /\ IF rn[r].queryQueue = <<>>
     THEN ~rn'[r].isExecutingQuery
     ELSE /\ qs'[Head(rn[r].queryQueue)].status = "inflight"
          /\ qs'[Head(rn[r].queryQueue)].sent
          /\ rn'[r].queryQueue = Tail(rn[r].queryQueue)

ErrorRejectsQuery == [][\A r \in Runners : ErrorStep(r) => ErrorPost(r)]_vars

\* C30: a runner that has a response handler registered, that is, one for
\* which sendCommand has written a command, has received READY.
CommandWritten(r) == \E ty \in MsgTypes : rn[r].handlers[ty].kind # "none"

NoCommandBeforeReady ==
  \A r \in Runners : CommandWritten(r) => rn[r].readyResolved

\* C31: at every return to the event loop a runner whose in-flight flag is
\* clear has an empty queue, and every executeQuery call that is in the queue
\* is unsettled and has had neither onStarted run nor EXECUTE written.
NothingStranded ==
  \A r \in Runners :
    /\ ~rn[r].isExecutingQuery => rn[r].queryQueue = <<>>
    /\ \A p \in 1..Len(rn[r].queryQueue) :
         LET q == rn[r].queryQueue[p] IN
           qs[q].status = "queued" /\ qs[q].started = 0 /\ ~qs[q].sent

\* a result, an ERROR answer and a clearPendingQueries call have been handled
\* and the queue has drained
NothingStrandedWitness ==
  /\ ~rn[1].isExecutingQuery /\ rn[1].queryQueue = <<>> /\ ~rn[1].cancelled
  /\ \E a, b, c \in Queries :
       /\ qs[a].status = "resolved"
       /\ qs[b].status = "rejected" /\ qs[b].why = "error" /\ qs[b].sent
       /\ qs[c].why = "clear"

\* C32: on every session the EXECUTE commands of a run form one block: no
\* EXECUTE of a run started later is written between two EXECUTE commands of
\* a run started earlier.
RunOf(r, p) == qs[rn[r].execLog[p]].run

RunsContiguous ==
  \A r \in Runners :
    \A i, j, k \in 1..Len(rn[r].execLog) :
      (i < j /\ j < k /\ RunOf(r, i) # NoRun /\ RunOf(r, i) = RunOf(r, k))
        => ~(RunOf(r, j) > RunOf(r, i))

\* C33: when RECONNECT or CLOSE was written while an EXECUTE was unsettled on
\* the same runner, and the worker, still running, has answered every command
\* and every answer has been read, neither that call nor the executeQuery
\* call is pending.
Overlapping ==
  {c \in OpsAll : /\ ops[c].kind \in {"reconnect", "close"}
                  /\ ops[c].wrote /\ ops[c].during # {}}

Answered(r) ==
  /\ wk[r].state = "running" /\ wk[r].stdin = <<>> /\ wk[r].stdout = <<>>
  /\ ~rn[r].cancelled

OwnResponseSettles ==
  \A c \in Overlapping :
    Answered(ops[c].runner) =>
      /\ ops[c].status # "pending"
      /\ \A q \in ops[c].during : qs[q].status \in Settled

\* C34: every worker process that is alive belongs to the runner registered
\* for its file or to a runner whose start() has not settled yet.
RegisteredSession(r) ==
  MapHas(sessions, rn[r].file) /\ sessions[rn[r].file] = r

NoOrphanWorker ==
  \A r \in Runners :
    WorkerAlive(wk[r]) => (RegisteredSession(r) \/ rn[r].connect = "pending")

\* C35: a run started while the close() of the session registered for its
\* file is awaiting its CLOSE response is not given that session and
\* submits no statement to it; and when nothing is left for the workers to
\* do, no executeQuery call on a session that close() has completed on is
\* pending.
CloseInProgress(r) ==
  \E c \in OpsAll : /\ ops[c].kind = "close" /\ ops[c].runner = r
                    /\ ops[c].wrote /\ ops[c].status = "pending"

HandoutStep(r) ==
  /\ Len(runs') = Len(runs) + 1
  /\ runs'[Len(runs')].file = rn[r].file
  /\ RegisteredSession(r) /\ CloseInProgress(r)

HandoutPost(r) ==
  /\ runs'[Len(runs')].session # r
  /\ \A q \in (Len(qs) + 1)..Len(qs') : qs'[q].runner # r

Closed(r) ==
  \E c \in OpsAll : /\ ops[c].kind = "close" /\ ops[c].runner = r
                    /\ ops[c].wrote /\ ops[c].status = "resolved"

NoHandoutWhileClosing ==
  /\ [][\A r \in Runners : HandoutStep(r) => HandoutPost(r)]_vars
  /\ [](Quiescent =>
          \A q \in Queries : Closed(qs[q].runner) => qs[q].status \in Settled)

\* C36: a run that has ended (its executeQuery invocation has returned, or a
\* terminal run event has been emitted for it) has no entry in
\* runningQueries, runningResultSets and cancelledRuns.
Ended(run) == runs[run].stage = "done" \/ RunTerminals(run) # {}

TrackingCleared ==
  \A run \in Runs :
    Ended(run) =>
      /\ run \notin runningQueries
      /\ ~MapHas(runningResultSets, run)
      /\ run \notin cancelledRuns

\* C37: the values handleStdout has delivered are those it delivers when the
\* bytes received so far arrive in one data event: the valid lines of the
\* decoded stream, in order, without the text after its last newline.
ChunkingImmaterial ==
  rn[1].delivered = Parsed(LinesOf(BufferToString(rn[1].received)))

\* C38: once a stop() call has completed (and no request is queued after the
\* stop began) the MetadataWorker holds no runner, and no executeQuery call
\* is made and no worker process spawned after that moment.
StoppedStaysStopped ==
  mw.stopped =>
    /\ MetadataRunner(S) = NoRunner
    /\ Len(qs) = mw.queriesAtStop
    /\ Len(rn) = mw.spawnedAtStop
====
